---- MODULE Spec2Model ----
(***************************************************************************)
(* Model of mkslides_mcp_server/server.py: the generate_slides tool.       *)
(*                                                                         *)
(* The file system is modelled by four variables: the publish slot         *)
(* /app/mkslides_output/latest, and the temporary markdown files, config   *)
(* files and build directories tempfile creates (one fresh name per        *)
(* attempt, indexed by the attempt's number).  Each worker p runs          *)
(* generate_slides statement by statement; every file-system call is one   *)
(* step, so the steps of two attempts and the reads of the HTTP server     *)
(* thread interleave at the granularity of system calls.                   *)
(***************************************************************************)
EXTENDS Integers, Sequences, FiniteSets, TLC

VARIABLES
    pc,              \* position of each worker inside generate_slides
    args,            \* the arguments of the worker's current call
    tool,            \* how the external builder behaves for this call
    bid,             \* number of the worker's current attempt (names its temp files)
    nextId,          \* next unused attempt number (tempfile never reuses a name)
    latest,          \* the directory latest_output_dir
    fs_md,           \* temporary markdown files that exist
    fs_cfg,          \* temporary config files that exist, with their content
    fs_build,        \* temporary build directories
    config_arg,      \* local config_arg
    command,         \* local command
    todo,            \* entries shutil.rmtree has listed and not yet unlinked
    items,           \* entries of os.listdir(temp_build_dir) not yet moved
    invoked,         \* the command lines handed to subprocess.run by this attempt
    pending,         \* exception in flight (or the return value) while finally runs
    outcome,         \* what the call returned or raised
    pre,             \* history: the slot as it was when the attempt started
    solo,            \* history: no other attempt was in flight during this one
    torn,            \* history: the slot was seen neither old nor new during this attempt
    server_thread,   \* global server_thread: "None", or the thread "alive" or "dead"
    listening,       \* sockets this process has bound to server_port and listens on
    start_calls,     \* history: calls of start_server_in_thread so far
    bind_calls,      \* history: socketserver.TCPServer(...) constructions so far
    thread_starts,   \* history: server_thread.start() calls so far
    composed         \* the last composition of a structured config with overrides

\* The state outside generate_slides.
env == <<server_thread, listening, start_calls, bind_calls, thread_starts, composed>>

vars == <<pc, args, tool, bid, nextId, latest, fs_md, fs_cfg, fs_build,
          config_arg, command, todo, items, invoked, pending, outcome,
          pre, solo, torn, env>>

\* ---------------------------------------------------------------- bounds

\* Attempts started in a run of the concurrent specification.
MaxBuilds == 2

\* Attempts started in a run of the sequential specification.
MaxSeqBuilds == 3

\* Calls of start_server_in_thread in a run.
MaxStarts == 3

Procs == {1, 2}
Ids == 1..(IF MaxBuilds > MaxSeqBuilds THEN MaxBuilds ELSE MaxSeqBuilds)

\* --------------------------------------------------------------- constants

server_port == 8080

\* Entries the external builder may write into its output directory
\* (regular files: os.rename replaces an existing destination file).
Names == {"index.html", "assets.css"}

\* ------------------------------------------------------- values and inputs

\* Optional[...] is a set with at most one element: None is {}.
None == {}
Some(v) == {v}

\* A dict is the set of its <<key, value>> pairs.
EmptyDict == {}
Keys(d) == {kv[1] : kv \in d}
Get(d, k) == (CHOOSE kv \in d : kv[1] = k)[2]

\* Python truthiness: None and "" are falsy for an Optional[str],
\* None and {} for an Optional[dict].
TruthyStr(o) == \E v \in o : v # ""
TruthyDict(o) == \E v \in o : v # EmptyDict

Val(o) == CHOOSE v \in o : TRUE

Markdowns == {"", "# Title"}
Themes == {None, Some(""), Some("black")}
HighlightThemes == {None, Some(""), Some("monokai")}
RevealOptions == {None, Some(EmptyDict), Some({<<"transition", "slide">>})}

Overrides(T, H, R) ==
    [slides_theme : T, slides_highlight_theme : H, revealjs_options : R]

AllOverrides == Overrides(Themes, HighlightThemes, RevealOptions)
NoOverrides == [slides_theme |-> None, slides_highlight_theme |-> None,
                revealjs_options |-> None]
FewOverrides == Overrides({None, Some("black")}, {None}, {None})

\* The external builder is opaque: it is missing, exits non-zero with some
\* stderr text, or exits 0 having written some entries into its "-d" directory.
Stderrs == {"unknown option '--foo'", "bad markdown"}
ToolMissing == [exit |-> "missing", stderr |-> "", out |-> {}]
ToolFails(e) == [exit |-> "nonzero", stderr |-> e, out |-> {}]
ToolOk(o) == [exit |-> "zero", stderr |-> "", out |-> o]
Outputs == {{"index.html"}, Names}
AllTools == {ToolMissing} \cup {ToolFails(e) : e \in Stderrs} \cup {ToolOk(o) : o \in Outputs}
FewTools == {ToolMissing, ToolFails("bad markdown")} \cup {ToolOk(o) : o \in Outputs}

\* ---------------------------------------------------------- file system

NoDir == [exists |-> FALSE, ent |-> [n \in Names |-> 0]]
EmptyDir == [exists |-> TRUE, ent |-> [n \in Names |-> 0]]
\* ent[n] = 0: no entry n; ent[n] = b > 0: the entry n written by attempt b.
Entries(d) == {n \in Names : d.ent[n] # 0}

NoBuildDir == [exists |-> FALSE, names |-> {}]

MdPath(b) == "/tmp/tmp" \o ToString(b) \o ".md"
CfgPath(b) == "/tmp/tmp" \o ToString(b) \o ".yml"
BuildPath(b) == "/tmp/tmp" \o ToString(b)

\* The complete output of attempt b when its builder wrote the entries o.
Complete(b, o) == [exists |-> TRUE, ent |-> [n \in Names |-> IF n \in o THEN b ELSE 0]]

\* ------------------------------------------------------------ outcomes

NoOutcome == [kind |-> "none", msg |-> <<>>, port |-> 0]
Returned == [kind |-> "return", msg |-> <<"http://localhost:", "/latest/index.html">>,
             port |-> server_port]
Raise(k, m) == [kind |-> k, msg |-> m, port |-> 0]
ValidationError == Raise("ValueError", <<"markdown_content must be provided.">>)
\* Variant of line 228 whose message leaves out e.stderr.
BuildFailedNoStderr(e) == Raise("RuntimeError", <<"mkslides build failed: ">>)

\* Line 228.
BuildFailed(e) == Raise("RuntimeError", <<"mkslides build failed: ", e>>)
CommandNotFound ==
    Raise("RuntimeError", <<"'mkslides' command not found. Is it installed and in the PATH?">>)
MoveFailed(e) == Raise("RuntimeError", <<"Failed to move generated files: ">> \o e)
Unexpected(e) ==
    Raise("RuntimeError", <<"An unexpected error occurred during mkslides build: ">> \o e)

\* --------------------------------------------------------- ConfigComposer

\* Variant of lines 159-164 that tests "is not None" instead of truthiness.
SlidesSectionNotNone(a) ==
    {<<"theme", v>> : v \in a.slides_theme}
    \cup {<<"highlight_theme", v>> : v \in a.slides_highlight_theme}

\* Lines 157-164: the 'slides' section.
SlidesSection(a) ==
    (IF TruthyStr(a.slides_theme) THEN {<<"theme", Val(a.slides_theme)>>} ELSE {})
    \cup (IF TruthyStr(a.slides_highlight_theme)
          THEN {<<"highlight_theme", Val(a.slides_highlight_theme)>>} ELSE {})

\* Variant of line 154 whose condition forgets revealjs_options.
ConfigThemesOnly(a) ==
    IF TruthyStr(a.slides_theme) \/ TruthyStr(a.slides_highlight_theme)
    THEN Some({<<"slides", SlidesSection(a)>>}
              \cup (IF TruthyDict(a.revealjs_options)
                    THEN {<<"revealjs", Val(a.revealjs_options)>>} ELSE {}))
    ELSE None

\* Lines 154-168: the dict config, or None when the outer condition is false.
Config(a) ==
    IF TruthyStr(a.slides_theme) \/ TruthyStr(a.slides_highlight_theme) \/ TruthyDict(a.revealjs_options)
    THEN Some(
        (IF TruthyStr(a.slides_theme) \/ TruthyStr(a.slides_highlight_theme)
         THEN {<<"slides", SlidesSection(a)>>} ELSE {})
        \cup (IF TruthyDict(a.revealjs_options)
              THEN {<<"revealjs", Val(a.revealjs_options)>>} ELSE {}))
    ELSE None

\* Structured configuration objects (only the variants of server.py that take
\* a config_json argument have them).
ConfigJsons ==
    {None, Some(EmptyDict),
     Some({<<"slides", {<<"theme", "white">>}>>}),
     Some({<<"slides", {<<"highlight_theme", "github">>}>>}),
     Some({<<"revealjs", {<<"transition", "fade">>}>>}),
     Some({<<"slides", {<<"theme", "white">>}>>,
           <<"revealjs", {<<"transition", "fade">>}>>})}

\* What the discrete overrides give for section s: empty when none applies.
Fill(ov, s) ==
    IF s = "slides" THEN SlidesSection(ov)
    ELSE IF TruthyDict(ov.revealjs_options) THEN Val(ov.revealjs_options)
    ELSE {}

\* Variant of the precedence rule in which a non-empty override replaces the
\* structured section.
SectionOverrideFirst(cj, ov, s) ==
    IF Fill(ov, s) # {} THEN {<<s, Fill(ov, s)>>}
    ELSE IF cj # None /\ s \in Keys(Val(cj)) THEN {<<s, Get(Val(cj), s)>>}
    ELSE {}

\* Section s of the effective configuration: the structured object's section
\* verbatim when it defines one, else the overrides' when they are non-empty.
Section(cj, ov, s) ==
    IF cj # None /\ s \in Keys(Val(cj)) THEN {<<s, Get(Val(cj), s)>>}
    ELSE IF Fill(ov, s) # {} THEN {<<s, Fill(ov, s)>>}
    ELSE {}

OverridesWin(cj, ov) ==
    LET d == SectionOverrideFirst(cj, ov, "slides")
                 \cup SectionOverrideFirst(cj, ov, "revealjs")
    IN  IF d = {} THEN None ELSE Some(d)

\* The effective configuration, or None when there is nothing to configure.
EffectiveConfig(cj, ov) ==
    LET d == Section(cj, ov, "slides") \cup Section(cj, ov, "revealjs")
    IN  IF d = {} THEN None ELSE Some(d)

\* ------------------------------------------------------------ histories

InFlight(q) == pc[q] \notin {"idle", "done"}

\* What the attempt of q publishes if it succeeds.
Post(q) == Complete(bid[q], tool[q].out)

\* A reader that lists the slot and finds s during the attempt of q sees
\* neither the content the slot had before the attempt nor the attempt's
\* complete output (an empty or missing slot counts as the old content when
\* there was no previous build).
IsTorn(q, s) ==
    /\ s # pre[q]
    /\ s # Post(q)
    /\ ~(Entries(pre[q]) = {} /\ Entries(s) = {})

\* Updated by every step, from the step's effect on pc, bid and latest.
History ==
    /\ pre' = [q \in Procs |-> IF bid'[q] # bid[q] THEN latest ELSE pre[q]]
    /\ solo' = [q \in Procs |->
          IF bid'[q] # bid[q]
          THEN \A r \in Procs \ {q} : ~InFlight(r)
          ELSE solo[q] /\ ~(InFlight(q) /\ \E r \in Procs \ {q} :
                                  bid'[r] # bid[r] /\ pc'[r] \notin {"idle", "done"})]
    /\ torn' = [q \in Procs |->
          IF bid'[q] # bid[q] THEN FALSE
          ELSE torn[q] \/ (InFlight(q) /\ IsTorn(q, latest'))]

\* ---------------------------------------------------------------- Init

NoComposition == [config_json |-> None, overrides |-> NoOverrides, effective |-> None]

NoArgs == [markdown_content |-> "", slides_theme |-> None,
           slides_highlight_theme |-> None, revealjs_options |-> None]

Init ==
    /\ pc = [p \in Procs |-> "idle"]
    /\ args = [p \in Procs |-> NoArgs]
    /\ tool = [p \in Procs |-> ToolMissing]
    /\ bid = [p \in Procs |-> 0]
    /\ nextId = 1
    /\ latest = NoDir
    /\ fs_md = {}
    /\ fs_cfg = [b \in Ids |-> None]
    /\ fs_build = [b \in Ids |-> NoBuildDir]
    /\ config_arg = [p \in Procs |-> <<>>]
    /\ command = [p \in Procs |-> <<>>]
    /\ todo = [p \in Procs |-> {}]
    /\ items = [p \in Procs |-> {}]
    /\ invoked = [p \in Procs |-> <<>>]
    /\ pending = [p \in Procs |-> NoOutcome]
    /\ outcome = [p \in Procs |-> NoOutcome]
    /\ pre = [p \in Procs |-> NoDir]
    /\ solo = [p \in Procs |-> TRUE]
    /\ torn = [p \in Procs |-> FALSE]
    /\ server_thread = "None"
    /\ listening = 0
    /\ start_calls = 0
    /\ bind_calls = 0
    /\ thread_starts = 0
    /\ composed = NoComposition

\* ------------------------------------------------------- generate_slides

\* Variant of line 139 that lets every markdown_content through.
AlwaysProvided(md) == FALSE

\* Line 139: "if not markdown_content".
NotProvided(md) == md = ""

\* An exception that leaves generate_slides before the try statement is
\* entered (lines 143-194): nothing catches it and no finally block runs.
Propagate(p, e) ==
    /\ pc' = [pc EXCEPT ![p] = "done"]
    /\ outcome' = [outcome EXCEPT ![p] = e]

\* Variant of the try statement without its finally block: the error is
\* chosen and generate_slides is left at once.
RaiseSkippingFinally(p, e) ==
    /\ pc' = [pc EXCEPT ![p] = "done"]
    /\ pending' = [pending EXCEPT ![p] = e]

\* An exception raised inside the try statement: the except clause has
\* chosen the error e to raise, and the finally block runs first.
RaiseInTry(p, e) ==
    /\ pc' = [pc EXCEPT ![p] = "finally"]
    /\ pending' = [pending EXCEPT ![p] = e]

\* Lines 139-148: a call arrives (at most max calls in a run); validation,
\* then the temporary markdown file.
Call(p, OV, TL, max) ==
    /\ pc[p] \in {"idle", "done"}
    /\ nextId <= max
    /\ \E md \in Markdowns, ov \in OV, tl \in TL :
          /\ args' = [args EXCEPT ![p] =
                [markdown_content |-> md, slides_theme |-> ov.slides_theme,
                 slides_highlight_theme |-> ov.slides_highlight_theme,
                 revealjs_options |-> ov.revealjs_options]]
          /\ tool' = [tool EXCEPT ![p] = tl]
          /\ bid' = [bid EXCEPT ![p] = nextId]
          /\ nextId' = nextId + 1
          /\ config_arg' = [config_arg EXCEPT ![p] = <<>>]
          /\ command' = [command EXCEPT ![p] = <<>>]
          /\ todo' = [todo EXCEPT ![p] = {}]
          /\ items' = [items EXCEPT ![p] = {}]
          /\ invoked' = [invoked EXCEPT ![p] = <<>>]
          /\ pending' = [pending EXCEPT ![p] = NoOutcome]
          /\ IF NotProvided(md)
             THEN /\ pc' = [pc EXCEPT ![p] = "done"]
                  /\ outcome' = [outcome EXCEPT ![p] = ValidationError]
                  /\ fs_md' = fs_md
             ELSE /\ pc' = [pc EXCEPT ![p] = "config"]
                  /\ outcome' = [outcome EXCEPT ![p] = NoOutcome]
                  /\ fs_md' = fs_md \cup {nextId}
    /\ UNCHANGED <<latest, fs_cfg, fs_build>>
    /\ UNCHANGED env
    /\ History

\* Lines 150-176: compose the config; write the temporary config file if there is one.
Configure(p) ==
    /\ pc[p] = "config"
    /\ LET c == Config(args[p]) IN
          IF c # None
          THEN /\ fs_cfg' = [fs_cfg EXCEPT ![bid[p]] = c]
               /\ config_arg' = [config_arg EXCEPT ![p] = <<"-f", CfgPath(bid[p])>>]
          ELSE UNCHANGED <<fs_cfg, config_arg>>
    /\ pc' = [pc EXCEPT ![p] = "exists"]
    /\ UNCHANGED <<args, tool, bid, nextId, latest, fs_md, fs_build, command,
                   todo, items, invoked, pending, outcome>>
    /\ UNCHANGED env
    /\ History

\* Variant of line 179 that never clears the previous output.
NeverClear(d) == FALSE

\* Line 179: the condition "os.path.exists(latest_output_dir)" under which
\* the previous output is cleared.
ClearFirst(d) == d.exists

\* Lines 179-180: the test that guards shutil.rmtree.
CheckExists(p) ==
    /\ pc[p] = "exists"
    /\ pc' = [pc EXCEPT ![p] = IF ClearFirst(latest) THEN "rmtree" ELSE "makedirs"]
    /\ UNCHANGED <<args, tool, bid, nextId, latest, fs_md, fs_cfg, fs_build,
                   config_arg, command, todo, items, invoked, pending, outcome>>
    /\ UNCHANGED env
    /\ History

\* Line 180, shutil.rmtree: list the directory.
RmtreeList(p) ==
    /\ pc[p] = "rmtree"
    /\ IF latest.exists
       THEN /\ todo' = [todo EXCEPT ![p] = Entries(latest)]
            /\ pc' = [pc EXCEPT ![p] = "unlink"]
            /\ UNCHANGED outcome
       ELSE /\ Propagate(p, Raise("FileNotFoundError", <<"latest">>))
            /\ UNCHANGED todo
    /\ UNCHANGED <<args, tool, bid, nextId, latest, fs_md, fs_cfg, fs_build,
                   config_arg, command, items, invoked, pending>>
    /\ UNCHANGED env
    /\ History

\* Line 180, shutil.rmtree: unlink one listed entry.
RmtreeUnlink(p) ==
    /\ pc[p] = "unlink"
    /\ \E n \in todo[p] :
          IF latest.exists /\ latest.ent[n] # 0
          THEN /\ latest' = [latest EXCEPT !.ent[n] = 0]
               /\ todo' = [todo EXCEPT ![p] = @ \ {n}]
               /\ UNCHANGED <<pc, outcome>>
          ELSE /\ Propagate(p, Raise("FileNotFoundError", <<n>>))
               /\ UNCHANGED <<latest, todo>>
    /\ UNCHANGED <<args, tool, bid, nextId, fs_md, fs_cfg, fs_build,
                   config_arg, command, items, invoked, pending>>
    /\ UNCHANGED env
    /\ History

\* Line 180, shutil.rmtree: remove the directory itself.
RmtreeRmdir(p) ==
    /\ pc[p] = "unlink"
    /\ todo[p] = {}
    /\ IF ~latest.exists
       THEN /\ Propagate(p, Raise("FileNotFoundError", <<"latest">>))
            /\ UNCHANGED latest
       ELSE IF Entries(latest) # {}
       THEN /\ Propagate(p, Raise("OSError", <<"Directory not empty">>))
            /\ UNCHANGED latest
       ELSE /\ latest' = NoDir
            /\ pc' = [pc EXCEPT ![p] = "makedirs"]
            /\ UNCHANGED outcome
    /\ UNCHANGED <<args, tool, bid, nextId, fs_md, fs_cfg, fs_build,
                   config_arg, command, todo, items, invoked, pending>>
    /\ UNCHANGED env
    /\ History

\* Line 182: os.makedirs(latest_output_dir, exist_ok=True).
Makedirs(p) ==
    /\ pc[p] = "makedirs"
    /\ latest' = IF latest.exists THEN latest ELSE EmptyDir
    /\ pc' = [pc EXCEPT ![p] = "mkdtemp"]
    /\ UNCHANGED <<args, tool, bid, nextId, fs_md, fs_cfg, fs_build,
                   config_arg, command, todo, items, invoked, pending, outcome>>
    /\ UNCHANGED env
    /\ History

\* Lines 189-192: tempfile.mkdtemp() and the command line.
Mkdtemp(p) ==
    /\ pc[p] = "mkdtemp"
    /\ fs_build' = [fs_build EXCEPT ![bid[p]] = [exists |-> TRUE, names |-> {}]]
    /\ command' = [command EXCEPT ![p] =
          <<"mkslides", "build", MdPath(bid[p]), "-d", BuildPath(bid[p])>> \o config_arg[p]]
    /\ pc' = [pc EXCEPT ![p] = "run"]
    /\ UNCHANGED <<args, tool, bid, nextId, latest, fs_md, fs_cfg,
                   config_arg, todo, items, invoked, pending, outcome>>
    /\ UNCHANGED env
    /\ History

\* Variant of lines 198-228 that runs the builder a second time after a
\* first non-zero exit.
RunBuilderRetry(p) ==
    /\ pc[p] = "run"
    /\ invoked' = [invoked EXCEPT ![p] = Append(@, command[p])]
    /\ IF tool[p].exit = "missing"
       THEN /\ RaiseInTry(p, CommandNotFound)
            /\ UNCHANGED fs_build
       ELSE IF tool[p].exit = "nonzero"
       THEN /\ IF invoked[p] = <<>> THEN UNCHANGED <<pc, pending>>
               ELSE RaiseInTry(p, BuildFailed(tool[p].stderr))
            /\ UNCHANGED fs_build
       ELSE /\ fs_build' = [fs_build EXCEPT ![bid[p]].names = tool[p].out]
            /\ pc' = [pc EXCEPT ![p] = "listdir"]
            /\ UNCHANGED pending
    /\ UNCHANGED <<args, tool, bid, nextId, latest, fs_md, fs_cfg,
                   config_arg, command, todo, items, outcome>>
    /\ UNCHANGED env
    /\ History

\* Lines 198 and 224-231: subprocess.run(command, check=True) and the
\* except clauses for its two exceptions.
RunBuilder(p) ==
    /\ pc[p] = "run"
    /\ invoked' = [invoked EXCEPT ![p] = Append(@, command[p])]
    /\ IF tool[p].exit = "missing"
       THEN /\ RaiseInTry(p, CommandNotFound)
            /\ UNCHANGED fs_build
       ELSE IF tool[p].exit = "nonzero"
       THEN /\ RaiseInTry(p, BuildFailed(tool[p].stderr))
            /\ UNCHANGED fs_build
       ELSE /\ fs_build' = [fs_build EXCEPT ![bid[p]].names = tool[p].out]
            /\ pc' = [pc EXCEPT ![p] = "listdir"]
            /\ UNCHANGED pending
    /\ UNCHANGED <<args, tool, bid, nextId, latest, fs_md, fs_cfg,
                   config_arg, command, todo, items, outcome>>
    /\ UNCHANGED env
    /\ History

\* Lines 206 and 211: os.listdir(temp_build_dir). The call of line 206 is
\* outside the inner try: its FileNotFoundError reaches the clause of line 229.
Listdir(p) ==
    /\ pc[p] = "listdir"
    /\ IF fs_build[bid[p]].exists
       THEN /\ items' = [items EXCEPT ![p] = fs_build[bid[p]].names]
            /\ pc' = [pc EXCEPT ![p] = "move"]
            /\ UNCHANGED pending
       ELSE /\ RaiseInTry(p, CommandNotFound)
            /\ UNCHANGED items
    /\ UNCHANGED <<args, tool, bid, nextId, latest, fs_md, fs_cfg, fs_build,
                   config_arg, command, todo, invoked, outcome>>
    /\ UNCHANGED env
    /\ History

\* The text of the exception shutil.move raises at line 214.
MoveError(n, gone) ==
    <<n, IF gone THEN "No such file or directory" ELSE "Input/output error">>

\* Lines 211-221 and 232-234: shutil.move of one entry into the slot. It
\* fails when the slot directory is gone, or on an I/O fault (io = FALSE);
\* the RuntimeError of line 221 is caught again by the clause of line 232.
MoveItem(p) ==
    /\ pc[p] = "move"
    /\ \E n \in items[p], io \in BOOLEAN :
          IF io /\ latest.exists
          THEN /\ latest' = [latest EXCEPT !.ent[n] = bid[p]]
               /\ fs_build' = [fs_build EXCEPT ![bid[p]].names = @ \ {n}]
               /\ items' = [items EXCEPT ![p] = @ \ {n}]
               /\ UNCHANGED <<pc, pending>>
          ELSE /\ RaiseInTry(p, Unexpected(MoveFailed(MoveError(n, ~latest.exists)).msg))
               /\ UNCHANGED <<latest, fs_build, items>>
    /\ UNCHANGED <<args, tool, bid, nextId, fs_md, fs_cfg,
                   config_arg, command, todo, invoked, outcome>>
    /\ UNCHANGED env
    /\ History

\* Line 216: the loop is over; the function will return after finally.
MoveDone(p) ==
    /\ pc[p] = "move"
    /\ items[p] = {}
    /\ pc' = [pc EXCEPT ![p] = "finally"]
    /\ pending' = [pending EXCEPT ![p] = Returned]
    /\ UNCHANGED <<args, tool, bid, nextId, latest, fs_md, fs_cfg, fs_build,
                   config_arg, command, todo, items, invoked, outcome>>
    /\ UNCHANGED env
    /\ History

\* Lines 237-239: os.remove of the temporary markdown file, if it exists.
RemoveMd(p) == fs_md \ {bid[p]}

\* Variant of lines 240-242 that leaves the temporary config file behind.
KeepCfg(p) == fs_cfg

\* Lines 240-242: os.remove of the temporary config file, if there is one
\* and it exists.
RemoveCfg(p) ==
    IF config_arg[p] # <<>> THEN [fs_cfg EXCEPT ![bid[p]] = None] ELSE fs_cfg

\* Variant of lines 243-245 that removes every temporary build directory.
RemoveAllBuildDirs(p) == [b \in Ids |-> NoBuildDir]

\* Lines 243-245: shutil.rmtree of the temporary build directory, if it exists.
RemoveBuildDir(p) == [fs_build EXCEPT ![bid[p]] = NoBuildDir]

\* Lines 235-250: the finally block removes the three temporary locations
\* that exist, then the pending exception propagates or line 250 returns.
Finally(p) ==
    /\ pc[p] = "finally"
    /\ fs_md' = RemoveMd(p)
    /\ fs_cfg' = RemoveCfg(p)
    /\ fs_build' = RemoveBuildDir(p)
    /\ pc' = [pc EXCEPT ![p] = "done"]
    /\ outcome' = [outcome EXCEPT ![p] = pending[p]]
    /\ UNCHANGED <<args, tool, bid, nextId, latest,
                   config_arg, command, todo, items, invoked, pending>>
    /\ UNCHANGED env
    /\ History

Step(p, OV, TL, max) ==
    \/ Call(p, OV, TL, max)
    \/ Configure(p)
    \/ CheckExists(p)
    \/ RmtreeList(p)
    \/ RmtreeUnlink(p)
    \/ RmtreeRmdir(p)
    \/ Makedirs(p)
    \/ Mkdtemp(p)
    \/ RunBuilder(p)
    \/ Listdir(p)
    \/ MoveItem(p)
    \/ MoveDone(p)
    \/ Finally(p)

\* Concurrent attempts on two workers.
Next == \E p \in Procs : Step(p, FewOverrides, FewTools, MaxBuilds)

Spec == Init /\ [][Next]_vars

\* One worker, every combination of overrides and builder behaviours.
NextSeq == Step(1, AllOverrides, AllTools, MaxSeqBuilds)

SpecSeq == Init /\ [][NextSeq]_vars

\* ------------------------------------------------- start_server_in_thread

\* The state of generate_slides and of the file system.
gen == <<pc, args, tool, bid, nextId, latest, fs_md, fs_cfg, fs_build,
         config_arg, command, todo, items, invoked, pending, outcome,
         pre, solo, torn>>

\* Variant of line 38 that never takes the early return.
NeverRunning(t) == FALSE

\* Line 38: "server_thread is not None and server_thread.is_alive()".
AlreadyRunning(t) == t # "None" /\ t = "alive"

\* Lines 36-58: one call of start_server_in_thread. The constructor of line
\* 51 binds and listens; it raises when the port is taken, by this process's
\* own listener or by another process (ok = FALSE), and line 57 swallows that.
StartServer ==
    /\ start_calls < MaxStarts
    /\ start_calls' = start_calls + 1
    /\ IF AlreadyRunning(server_thread)
       THEN UNCHANGED <<server_thread, listening, bind_calls, thread_starts>>
       ELSE /\ bind_calls' = bind_calls + 1
            /\ \E ok \in BOOLEAN :
                  IF ok /\ listening = 0
                  THEN /\ server_thread' = "alive"
                       /\ listening' = 1
                       /\ thread_starts' = thread_starts + 1
                  ELSE UNCHANGED <<server_thread, listening, thread_starts>>
    /\ UNCHANGED <<composed, gen>>

\* Line 53: the thread's target httpd.serve_forever ends; the thread is no
\* longer alive and its server object, held by the thread alone, is released.
ServeForeverEnds ==
    /\ server_thread = "alive"
    /\ server_thread' = "dead"
    /\ listening' = 0
    /\ UNCHANGED <<start_calls, bind_calls, thread_starts, composed, gen>>

\* Lines 311-313: mcp.run() serves tool calls once start_server_in_thread()
\* has returned.
Serving == IF start_calls >= 1 THEN MaxBuilds ELSE 0

NextServer ==
    \/ StartServer
    \/ ServeForeverEnds
    \/ Step(1, FewOverrides, FewTools, Serving)

SpecServer == Init /\ [][NextServer]_vars

\* ------------------------------------------------------ operating faults

\* Lines 171-172: creating or writing the temporary config file fails; the
\* statement is before the try, so the error leaves generate_slides at once.
ConfigureFails(p) ==
    /\ pc[p] = "config"
    /\ Config(args[p]) # None
    /\ Propagate(p, Raise("OSError", <<"No space left on device">>))
    /\ UNCHANGED <<args, tool, bid, nextId, latest, fs_md, fs_cfg, fs_build,
                   config_arg, command, todo, items, invoked, pending>>
    /\ UNCHANGED env
    /\ History

\* Line 180: shutil.rmtree cannot list or remove the slot directory.
RmtreeFails(p) ==
    /\ pc[p] = "rmtree"
    /\ Propagate(p, Raise("PermissionError", <<"latest">>))
    /\ UNCHANGED <<args, tool, bid, nextId, latest, fs_md, fs_cfg, fs_build,
                   config_arg, command, todo, items, invoked, pending>>
    /\ UNCHANGED env
    /\ History

\* Line 182: os.makedirs fails.
MakedirsFails(p) ==
    /\ pc[p] = "makedirs"
    /\ Propagate(p, Raise("PermissionError", <<"latest">>))
    /\ UNCHANGED <<args, tool, bid, nextId, latest, fs_md, fs_cfg, fs_build,
                   config_arg, command, todo, items, invoked, pending>>
    /\ UNCHANGED env
    /\ History

\* Line 189: tempfile.mkdtemp fails.
MkdtempFails(p) ==
    /\ pc[p] = "mkdtemp"
    /\ Propagate(p, Raise("OSError", <<"No space left on device">>))
    /\ UNCHANGED <<args, tool, bid, nextId, latest, fs_md, fs_cfg, fs_build,
                   config_arg, command, todo, items, invoked, pending>>
    /\ UNCHANGED env
    /\ History

\* Lines 198 and 232-234: subprocess.run raises an exception that is neither
\* CalledProcessError nor FileNotFoundError (the executable is found and
\* cannot be executed).
RunBuilderFails(p) ==
    /\ pc[p] = "run"
    /\ invoked' = [invoked EXCEPT ![p] = Append(@, command[p])]
    /\ RaiseInTry(p, Unexpected(<<"Permission denied">>))
    /\ UNCHANGED <<args, tool, bid, nextId, latest, fs_md, fs_cfg, fs_build,
                   config_arg, command, todo, items, outcome>>
    /\ UNCHANGED env
    /\ History

\* The removals of the finally block, in the order of lines 237-245, that
\* apply to the attempt of p.
Removals(p) ==
    <<"md">> \o (IF config_arg[p] # <<>> THEN <<"cfg">> ELSE <<>>) \o <<"build">>

\* Lines 235-245: removal number k of the finally block raises. The removals
\* before it are done, the ones after it are skipped, and the exception
\* raised inside the finally block is the one that reaches the caller.
FinallyFails(p) ==
    /\ pc[p] = "finally"
    /\ \E k \in 1..Len(Removals(p)) :
          LET before == {Removals(p)[i] : i \in 1..(k - 1)} IN
          /\ fs_md' = IF "md" \in before THEN RemoveMd(p) ELSE fs_md
          /\ fs_cfg' = IF "cfg" \in before THEN RemoveCfg(p) ELSE fs_cfg
          /\ fs_build' = fs_build
          /\ outcome' = [outcome EXCEPT ![p] =
                Raise("PermissionError", <<Removals(p)[k]>>)]
    /\ pc' = [pc EXCEPT ![p] = "done"]
    /\ UNCHANGED <<args, tool, bid, nextId, latest,
                   config_arg, command, todo, items, invoked, pending>>
    /\ UNCHANGED env
    /\ History

\* One worker whose file system and process operations may fail.
NextFault ==
    \/ Step(1, FewOverrides, FewTools, MaxBuilds)
    \/ ConfigureFails(1)
    \/ RmtreeFails(1)
    \/ MakedirsFails(1)
    \/ MkdtempFails(1)
    \/ RunBuilderFails(1)
    \/ FinallyFails(1)

SpecFault == Init /\ [][NextFault]_vars

\* The interpreter keeps running the one worker: a step that can be taken is
\* taken.
SpecFaultLive == SpecFault /\ WF_vars(NextFault)

\* ------------------------------------------------------- ConfigComposer

\* One composition of an effective configuration from a structured object
\* and discrete overrides.
Compose ==
    /\ \E cj \in ConfigJsons, ov \in AllOverrides :
          composed' = [config_json |-> cj, overrides |-> ov,
                       effective |-> EffectiveConfig(cj, ov)]
    /\ UNCHANGED <<server_thread, listening, start_calls, bind_calls,
                   thread_starts, gen>>

NextCompose == Compose

SpecCompose == Init /\ [][NextCompose]_vars

\* ================================================================ claims

Done(p) == pc[p] = "done"

\* The attempt of p ran with no other attempt in flight, and no attempt has
\* started since it began.
Alone(p) ==
    /\ solo[p]
    /\ \A r \in Procs \ {p} : ~InFlight(r) /\ bid[r] < bid[p]

ToolFailures == {BuildFailed(e) : e \in Stderrs}

Range(f) == {f[i] : i \in DOMAIN f}

\* The error line 221 raises, as line 234 wraps it.
IsPublishFailure(o) ==
    /\ o.kind = "RuntimeError"
    /\ Len(o.msg) >= 2
    /\ o.msg[2] = "Failed to move generated files: "

\* C1 (as claimed): an attempt that ends in success has never, from its
\* start to its end, left the slot in a state a reader could see that is
\* neither the content before the attempt nor the attempt's complete output.
C1_TornPublish ==
    \A p \in Procs : (Done(p) /\ outcome[p] = Returned) => ~torn[p]

\* C2 (as claimed): once two concurrent attempts have both returned their
\* URL, the slot holds exactly the complete output of one of them.
C2_OneOfTwoBuilds ==
    \A p, q \in Procs :
        (/\ p # q
         /\ Done(p) /\ outcome[p] = Returned /\ ~solo[p]
         /\ Done(q) /\ outcome[q] = Returned /\ ~solo[q])
        => (latest = Post(p) \/ latest = Post(q))

\* C3: after an attempt that ended in success, in tool failure or in
\* tool-missing, its temporary markdown file, config file and build
\* directory do not exist.
C3_NoTempRemains ==
    \A p \in Procs :
        (Done(p) /\ outcome[p] \in {Returned, CommandNotFound} \cup ToolFailures)
        => (/\ bid[p] \notin fs_md
            /\ fs_cfg[bid[p]] = None
            /\ ~fs_build[bid[p]].exists)

C3_Witness ==
    \E p \in Procs :
        /\ Done(p)
        /\ outcome[p] \in ToolFailures
        /\ config_arg[p] # <<>>

\* C4: a call with empty markdown_content is over in one step that raises
\* the ValueError and changes no file, no directory and the slot not at all,
\* and hands nothing to the builder.
C4_EmptyMarkdownRejected ==
    [][\A p \in Procs :
          (bid'[p] # bid[p] /\ args'[p].markdown_content = "")
          => (/\ pc'[p] = "done"
              /\ outcome'[p] = ValidationError
              /\ invoked'[p] = <<>>
              /\ UNCHANGED <<latest, fs_md, fs_cfg, fs_build>>)]_vars

C4_Witness ==
    \E p \in Procs :
        /\ Done(p)
        /\ args[p].markdown_content = ""
        /\ outcome[p] = ValidationError
        /\ Entries(latest) # {}

\* C5 (as claimed): after an attempt whose builder failed or was not found,
\* the slot is exactly what it was when the attempt started.
C5_FailureLeavesSlot ==
    \A p \in Procs :
        (Done(p) /\ outcome[p] \in {CommandNotFound} \cup ToolFailures)
        => latest = pre[p]

\* C6 (as claimed): after an attempt whose publish step failed, every entry
\* of the slot is the one it held when the attempt started: none removed,
\* none overwritten, none added.
C6_PublishFailureLeavesSlot ==
    \A p \in Procs :
        (Done(p) /\ IsPublishFailure(outcome[p]))
        => \A n \in Names : latest.ent[n] = pre[p].ent[n]

C8_ReplaceNotMerge ==
    \A p \in Procs :
        (Done(p) /\ outcome[p] = Returned /\ Alone(p))
        => latest = Complete(bid[p], tool[p].out)

C8_Witness ==
    \E p \in Procs :
        /\ Done(p) /\ outcome[p] = Returned /\ Alone(p)
        /\ Entries(pre[p]) = Names
        /\ tool[p].out = {"index.html"}

\* Non-empty overrides, in the claim's words.
GivenStr(o) == o # None /\ o # Some("")
GivenDict(o) == o # None /\ o # Some(EmptyDict)
AnyGiven(a) ==
    GivenStr(a.slides_theme) \/ GivenStr(a.slides_highlight_theme)
        \/ GivenDict(a.revealjs_options)

\* Positions where the temporary config file, if any, has been written and
\* not yet removed.
Configured(p) ==
    pc[p] \in {"exists", "rmtree", "unlink", "makedirs", "mkdtemp", "run",
               "listdir", "move", "finally"}

HasDashF(c, b) == \E i \in 1..(Len(c) - 1) : c[i] = "-f" /\ c[i + 1] = CfgPath(b)
NoDashF(c) == \A i \in 1..Len(c) : c[i] # "-f"

\* C9: the temporary config file exists, and the command line handed to the
\* builder holds "-f <that file>", exactly when at least one override is
\* non-empty; otherwise there is no config file and no "-f".
C9_ConfigIffOverride ==
    \A p \in Procs :
        /\ Configured(p) => (fs_cfg[bid[p]] # None <=> AnyGiven(args[p]))
        /\ \A i \in 1..Len(invoked[p]) :
              IF AnyGiven(args[p]) THEN HasDashF(invoked[p][i], bid[p])
              ELSE NoDashF(invoked[p][i])

C9_Witness ==
    \E p \in Procs :
        /\ Len(invoked[p]) = 1
        /\ args[p].slides_theme = Some("")
        /\ args[p].slides_highlight_theme = Some("")
        /\ args[p].revealjs_options = Some(EmptyDict)
        /\ NoDashF(invoked[p][1])
        /\ Configured(p) /\ fs_cfg[bid[p]] = None

\* C10: the config written has a 'slides' section exactly when a theme or
\* highlight-theme override is non-empty, holding exactly the non-empty ones;
\* a 'revealjs' section exactly when the options mapping is non-empty, equal
\* to it; no empty section and no other section.
C10_ConfigSections ==
    \A p \in Procs :
        (Configured(p) /\ fs_cfg[bid[p]] # None) =>
            LET cfg == Val(fs_cfg[bid[p]])
                a == args[p]
            IN  /\ Keys(cfg) \subseteq {"slides", "revealjs"}
                /\ Cardinality(cfg) = Cardinality(Keys(cfg))
                /\ "slides" \in Keys(cfg)
                      <=> (GivenStr(a.slides_theme) \/ GivenStr(a.slides_highlight_theme))
                /\ "slides" \in Keys(cfg) =>
                      Get(cfg, "slides") =
                          {<<"theme", v>> : v \in {w \in a.slides_theme : w # ""}}
                          \cup {<<"highlight_theme", v>> :
                                    v \in {w \in a.slides_highlight_theme : w # ""}}
                /\ "revealjs" \in Keys(cfg) <=> GivenDict(a.revealjs_options)
                /\ "revealjs" \in Keys(cfg) =>
                      a.revealjs_options = Some(Get(cfg, "revealjs"))
                /\ \A kv \in cfg : kv[2] # {}

C10_Witness ==
    \E p \in Procs :
        /\ pc[p] = "run"
        /\ args[p].slides_theme = Some("black")
        /\ fs_cfg[bid[p]] = Some({<<"slides", {<<"theme", "black">>}>>})

\* C12: a call of start_server_in_thread made while the listener thread is
\* alive constructs no server, starts no thread and leaves server_thread as
\* it is; and a listener thread is started only when none is alive.
C12_StartIdempotent ==
    [][/\ (start_calls' # start_calls /\ server_thread = "alive")
            => UNCHANGED <<server_thread, listening, bind_calls, thread_starts>>
       /\ thread_starts' # thread_starts => server_thread # "alive"]_vars

C12_Witness ==
    /\ start_calls = 2
    /\ bind_calls = 1
    /\ thread_starts = 1
    /\ server_thread = "alive"

\* C19 (as claimed): whenever generate_slides has returned the URL, the
\* listener thread is alive and listening on server_port.
C19_UrlImpliesServer ==
    \A p \in Procs :
        (Done(p) /\ outcome[p] = Returned)
        => (server_thread = "alive" /\ listening = 1)

\* The temporary locations of the attempt of p that exist.
Temps(p) ==
    (IF bid[p] \in fs_md THEN {"md"} ELSE {})
    \cup (IF fs_cfg[bid[p]] # None THEN {"cfg"} ELSE {})
    \cup (IF fs_build[bid[p]].exists THEN {"build"} ELSE {})

Failed(p) == Done(p) /\ outcome[p] \notin {NoOutcome, Returned, ValidationError}

\* C13 (as claimed): when an attempt has ended in an error raised after its
\* temporary markdown file was created, none of its temporary locations exists.
C13_CleanupOnAnyError ==
    \A p \in Procs : Failed(p) => Temps(p) = {}

\* C14 (as claimed): the finally block hands the caller the result the build
\* had when the block was entered, with every temporary location removed.
C14_CleanupNeverMasks ==
    \A p \in Procs :
        (Done(p) /\ pending[p] # NoOutcome)
        => (outcome[p] = pending[p] /\ Temps(p) = {})

\* C11: every section ('slides', 'revealjs') the structured object defines
\* is in the effective configuration exactly as the structured object gives
\* it, whatever the discrete overrides are.
C11_StructuredSectionWins ==
    \A s \in {"slides", "revealjs"} :
        (composed.config_json # None /\ s \in Keys(Val(composed.config_json)))
        => (/\ composed.effective # None
            /\ s \in Keys(Val(composed.effective))
            /\ Get(Val(composed.effective), s) = Get(Val(composed.config_json), s))

C11_Witness ==
    /\ composed.config_json = Some({<<"slides", {<<"theme", "white">>}>>})
    /\ composed.overrides.slides_theme = Some("black")
    /\ composed.effective # None
    /\ Get(Val(composed.effective), "slides") = {<<"theme", "white">>}

\* C17: no attempt hands more than one command to the builder, however it
\* ends, and an attempt with empty markdown_content hands it none.
C17_NoRetries ==
    \A p \in Procs :
        /\ Len(invoked[p]) <= 1
        /\ args[p].markdown_content = "" => invoked[p] = <<>>

C17_Witness ==
    \E p \in Procs :
        /\ Done(p)
        /\ tool[p].exit = "nonzero"
        /\ outcome[p] \in ToolFailures
        /\ Len(invoked[p]) = 1

\* C20: once the builder has been run (it exited, or could not be started),
\* the attempt ends with an outcome (the URL or one error) after the finally
\* block has been entered; the block is entered at most once per attempt and
\* left only towards the caller.
C20_OneOutcomeAfterCleanup ==
    /\ \A p \in Procs :
          (invoked[p] # <<>>)
              ~> (Done(p) /\ outcome[p] # NoOutcome /\ pending[p] # NoOutcome)
    /\ [][\A p \in Procs :
             /\ (pc'[p] = "finally" /\ pc[p] # "finally") => pending[p] = NoOutcome
             /\ (pc[p] = "finally" /\ pc'[p] # "finally")
                   => (pc'[p] = "done" /\ outcome'[p] # NoOutcome)]_vars

C20_Witness ==
    \E p \in Procs :
        /\ Done(p)
        /\ invoked[p] # <<>>
        /\ pending[p] = CommandNotFound
        /\ outcome[p] = CommandNotFound
        /\ Temps(p) = {}

\* C15 (as claimed): once the builder has been run, the 'command not found'
\* error is reported exactly for a missing executable, the build-failed error
\* exactly for a non-zero exit, and an attempt whose builder exited 0 and that
\* did not return failed in the move and raises the publish error of line 221.
C15_OutcomeIsWhatOccurred ==
    \A p \in Procs :
        (Done(p) /\ invoked[p] # <<>>) =>
            /\ outcome[p] = CommandNotFound <=> tool[p].exit = "missing"
            /\ outcome[p] \in ToolFailures <=> tool[p].exit = "nonzero"
            /\ (tool[p].exit = "zero" /\ outcome[p] # Returned)
                  => \E n \in Names, gone \in BOOLEAN :
                        outcome[p] = MoveFailed(MoveError(n, gone))

\* The attempt of p took the step.
Stepped(p) ==
    <<pc[p], bid[p], todo[p], items[p]>>' # <<pc[p], bid[p], todo[p], items[p]>>

\* C16: attempts have distinct temporary paths; each command handed to the
\* builder names the attempt's own markdown file and build directory; and a
\* temporary location is created, written or removed only in a step of the
\* attempt it belongs to.
C16_WorkspacesNotShared ==
    /\ [](\A p \in Procs :
            /\ \A q \in Procs \ {p} :
                  (bid[p] # 0 /\ bid[q] # 0)
                  => (/\ MdPath(bid[p]) # MdPath(bid[q])
                      /\ CfgPath(bid[p]) # CfgPath(bid[q])
                      /\ BuildPath(bid[p]) # BuildPath(bid[q]))
            /\ \A i \in 1..Len(invoked[p]) :
                  /\ invoked[p][i][3] = MdPath(bid[p])
                  /\ invoked[p][i][5] = BuildPath(bid[p])
                  /\ \A j \in 1..Len(invoked[p][i]) :
                        invoked[p][i][j] \notin
                            UNION {{MdPath(bid[q]), CfgPath(bid[q]), BuildPath(bid[q])} :
                                       q \in {r \in Procs \ {p} : bid[r] # 0}})
    /\ [][\A b \in Ids :
             (\/ (b \in fs_md') # (b \in fs_md)
              \/ fs_cfg'[b] # fs_cfg[b]
              \/ fs_build'[b] # fs_build[b])
             => \E p \in Procs : Stepped(p) /\ bid'[p] = b]_vars

C16_Witness ==
    \E p \in Procs : \E q \in Procs \ {p} :
        /\ Done(p) /\ outcome[p] = Returned /\ ~solo[p]
        /\ pc[q] = "move"
        /\ fs_build[bid[q]].exists
        /\ fs_build[bid[q]].names # {}
        /\ bid[q] \in fs_md

\* The error reports an I/O fault of shutil.move; every other error of the
\* clearing and move steps comes from another attempt's slot operations.
IoFault(o) == "Input/output error" \in Range(o.msg)

\* C18 (as claimed): when two overlapping attempts whose builders both exited
\* 0 are over, and no move hit an I/O fault, both have returned their URL.
C18_BothReturn ==
    \A p \in Procs : \A q \in Procs \ {p} :
        (/\ Done(p) /\ Done(q)
         /\ ~solo[p] /\ ~solo[q]
         /\ args[p].markdown_content # "" /\ args[q].markdown_content # ""
         /\ tool[p].exit = "zero" /\ tool[q].exit = "zero"
         /\ ~IoFault(outcome[p]) /\ ~IoFault(outcome[q]))
        => (outcome[p] = Returned /\ outcome[q] = Returned)

====
